---- MODULE Spec2Model ----
(***************************************************************************)
(* Layout engine of pyquest/drawer.py: get_num_qubits, get_operated_qubits, *)
(* get_gate_column and the loop of get_circuit_columns.                     *)
(*                                                                          *)
(* A gate is a record [explicit, targets, controls].  `explicit' is the     *)
(* outcome of has_explicit_targets (the duck-check of gate.targets);        *)
(* targets and controls are the row indices of gate.targets and             *)
(* gate.controls.  The layout reads these lists only through min, max,      *)
(* membership and iteration, so they are kept as sets.  The circuits        *)
(* explored are made of one-target gates with no or one control (on a       *)
(* different row) and of un-targeted gates; an un-targeted gate is the      *)
(* gate that operates on more than two rows.                                *)
(***************************************************************************)
EXTENDS Integers, Sequences, FiniteSets

\* largest row index a gate of the input may name
MaxQubit == 2
\* largest number of gates in the input list
MaxGates == 3

Qubits == 0..MaxQubit

Max(S) == CHOOSE x \in S : \A y \in S : y <= x
Min(S) == CHOOSE x \in S : \A y \in S : x <= y

\* the gate descriptors the drawer may be handed
ExplicitGates ==
    { [explicit |-> TRUE, targets |-> {t}, controls |-> c] :
        <<t, c>> \in { p \in Qubits \X (SUBSET Qubits) :
                          p[1] \notin p[2] /\ Cardinality(p[2]) <= 1 } }
GlobalGate == [explicit |-> FALSE, targets |-> {}, controls |-> {}]
Gates == ExplicitGates \cup {GlobalGate}
Circuits == UNION { [1..n -> Gates] : n \in 0..MaxGates }

VARIABLES
    gates,                               \* argument of get_circuit_columns
    pc,                                  \* "call", "loop", "done", "error"
    num_qubits,                          \* 0 until get_num_qubits returned
    gate_columns,
    columns_of_last_target,
    columns_occluded_by_connectors,
    noprune_columns,                     \* the same pass without the cleanup
    noprune_last_target,
    noprune_occluded

vars == <<gates, pc, num_qubits, gate_columns, columns_of_last_target,
          columns_occluded_by_connectors, noprune_columns, noprune_last_target,
          noprune_occluded>>

has_explicit_targets(gate) == gate.explicit

get_operated_qubits_first_only(gate, n) ==
    IF has_explicit_targets(gate)
    THEN gate.controls \cup gate.targets
    ELSE {0}

get_operated_qubits(gate, n) ==
    IF has_explicit_targets(gate)
    THEN gate.controls \cup gate.targets
    ELSE 0..(n - 1)

\* max() of an empty generator raises ValueError
get_num_qubits_default(gs) ==
    LET maxima == { Max(gs[i].targets \cup gs[i].controls) :
                      i \in { j \in DOMAIN gs : has_explicit_targets(gs[j]) } }
    IN  IF maxima = {}
        THEN [raised |-> FALSE, value |-> 1]
        ELSE [raised |-> FALSE, value |-> 1 + Max(maxima)]

get_num_qubits_targets_only(gs) ==
    LET maxima == { Max(gs[i].targets) :
                      i \in { j \in DOMAIN gs : has_explicit_targets(gs[j]) } }
    IN  IF maxima = {}
        THEN [raised |-> TRUE, value |-> 0]
        ELSE [raised |-> FALSE, value |-> 1 + Max(maxima)]

get_num_qubits(gs) ==
    LET maxima == { Max(gs[i].targets \cup gs[i].controls) :
                      i \in { j \in DOMAIN gs : has_explicit_targets(gs[j]) } }
    IN  IF maxima = {}
        THEN [raised |-> TRUE, value |-> 0]
        ELSE [raised |-> FALSE, value |-> 1 + Max(maxima)]

InList(c, list) == \E k \in DOMAIN list : list[k] = c

RECURSIVE skip_occluded_by_two(_, _, _)
skip_occluded_by_two(column, gate_range, occluded) ==
    IF \E q \in gate_range : InList(column, occluded[q])
    THEN skip_occluded_by_two(column + 2, gate_range, occluded)
    ELSE column

\* the while loop of get_gate_column
RECURSIVE skip_occluded(_, _, _)
skip_occluded(column, gate_range, occluded) ==
    IF \E q \in gate_range : InList(column, occluded[q])
    THEN skip_occluded(column + 1, gate_range, occluded)
    ELSE column

AllColumns(occluded, gate_range) ==
    UNION { { occluded[q][k] : k \in DOMAIN occluded[q] } : q \in gate_range }

get_gate_column_no_occlusion(gate_qubits, last_target, occluded) ==
    LET gate_range == Min(gate_qubits)..Max(gate_qubits)
    IN  1 + Max({ last_target[q] : q \in gate_range })

get_gate_column_off_by_one(gate_qubits, last_target, occluded) ==
    LET gate_range == Min(gate_qubits)..Max(gate_qubits)
        column == Max({ last_target[q] : q \in gate_range })
    IN  skip_occluded(column, gate_range, occluded)

get_gate_column_all_rows(gate_qubits, last_target, occluded) ==
    LET gate_range == Min(gate_qubits)..Max(gate_qubits)
        column == 1 + Max({ last_target[q] : q \in DOMAIN last_target })
    IN  skip_occluded(column, gate_range, occluded)

get_gate_column_terminals_only(gate_qubits, last_target, occluded) ==
    LET gate_range == Min(gate_qubits)..Max(gate_qubits)
        column == 1 + Max({ last_target[q] : q \in gate_qubits })
    IN  skip_occluded(column, gate_range, occluded)

get_gate_column_right_of_connectors(gate_qubits, last_target, occluded) ==
    LET gate_range == Min(gate_qubits)..Max(gate_qubits)
    IN  1 + Max({ last_target[q] : q \in gate_range }
                \cup AllColumns(occluded, gate_range))

get_gate_column(gate_qubits, last_target, occluded) ==
    LET gate_range == Min(gate_qubits)..Max(gate_qubits)
        column == 1 + Max({ last_target[q] : q \in gate_range })
    IN  skip_occluded(column, gate_range, occluded)

\* for q in gate_qubits: columns_of_last_target[q] = gate_column
set_last_target_lowest_only(last_target, gate_qubits, gate_column) ==
    [q \in DOMAIN last_target |->
        IF q = Min(gate_qubits) THEN gate_column ELSE last_target[q]]

set_last_target(last_target, gate_qubits, gate_column) ==
    [q \in DOMAIN last_target |->
        IF q \in gate_qubits THEN gate_column ELSE last_target[q]]

\* for q in range(*gate_range): columns_occluded_by_connectors[q].append(gate_column)
append_occluded(occluded, lo, hi, gate_column) ==
    [q \in DOMAIN occluded |->
        IF q \in lo..(hi - 1) THEN Append(occluded[q], gate_column) ELSE occluded[q]]

\* the cleanup: keep the c with c > columns_of_last_target[q], for q in the range
prune_occluded_keep_equal(occluded, last_target, lo, hi) ==
    [q \in DOMAIN occluded |->
        IF q \in lo..(hi - 1)
        THEN SelectSeq(occluded[q], LAMBDA c : c >= last_target[q])
        ELSE occluded[q]]

prune_occluded(occluded, last_target, lo, hi) ==
    [q \in DOMAIN occluded |->
        IF q \in lo..(hi - 1)
        THEN SelectSeq(occluded[q], LAMBDA c : c > last_target[q])
        ELSE occluded[q]]

Init ==
    /\ gates \in Circuits
    /\ pc = "call"
    /\ num_qubits = 0
    /\ gate_columns = <<>>
    /\ columns_of_last_target = <<>>
    /\ columns_occluded_by_connectors = <<>>
    /\ noprune_columns = <<>>
    /\ noprune_last_target = <<>>
    /\ noprune_occluded = <<>>

\* get_circuit_columns up to the loop; get_num_qubits returned
Enter ==
    /\ pc = "call"
    /\ ~ get_num_qubits(gates).raised
    /\ num_qubits' = get_num_qubits(gates).value
    /\ columns_of_last_target' = [i \in 0..(num_qubits' - 1) |-> -1]
    /\ columns_occluded_by_connectors' = [i \in 0..(num_qubits' - 1) |-> <<>>]
    /\ noprune_last_target' = [i \in 0..(num_qubits' - 1) |-> -1]
    /\ noprune_occluded' = [i \in 0..(num_qubits' - 1) |-> <<>>]
    /\ pc' = "loop"
    /\ UNCHANGED <<gates, gate_columns, noprune_columns>>

\* get_num_qubits raised; the exception leaves get_circuit_columns
Raise ==
    /\ pc = "call"
    /\ get_num_qubits(gates).raised
    /\ pc' = "error"
    /\ UNCHANGED <<gates, num_qubits, gate_columns, columns_of_last_target,
                   columns_occluded_by_connectors, noprune_columns,
                   noprune_last_target, noprune_occluded>>

\* one iteration of the for loop, and the same iteration of the pass that
\* leaves out the cleanup of lines 324-328
PlaceGate ==
    /\ pc = "loop"
    /\ Len(gate_columns) < Len(gates)
    /\ LET gate == gates[Len(gate_columns) + 1]
           gate_qubits == get_operated_qubits(gate, num_qubits)
           lo == Min(gate_qubits)
           hi == Max(gate_qubits) + 1
           gate_column == get_gate_column(gate_qubits, columns_of_last_target,
                                          columns_occluded_by_connectors)
           last_target == set_last_target(columns_of_last_target, gate_qubits, gate_column)
           np_column == get_gate_column(gate_qubits, noprune_last_target,
                                        noprune_occluded)
       IN  /\ gate_columns' = Append(gate_columns, gate_column)
           /\ columns_of_last_target' = last_target
           /\ columns_occluded_by_connectors' =
                 prune_occluded(
                    append_occluded(columns_occluded_by_connectors, lo, hi, gate_column),
                    last_target, lo, hi)
           /\ noprune_columns' = Append(noprune_columns, np_column)
           /\ noprune_last_target' =
                 set_last_target(noprune_last_target, gate_qubits, np_column)
           /\ noprune_occluded' = append_occluded(noprune_occluded, lo, hi, np_column)
    /\ UNCHANGED <<gates, pc, num_qubits>>

\* return gate_columns
Return ==
    /\ pc = "loop"
    /\ Len(gate_columns) = Len(gates)
    /\ pc' = "done"
    /\ UNCHANGED <<gates, num_qubits, gate_columns, columns_of_last_target,
                   columns_occluded_by_connectors, noprune_columns,
                   noprune_last_target, noprune_occluded>>

Next == Enter \/ Raise \/ PlaceGate \/ Return

Spec == Init /\ [][Next]_vars

\* draw_circuit: num_columns = 1 + max(gate_columns), on the returned list
num_columns == 1 + Max({ gate_columns[i] : i \in DOMAIN gate_columns })

(***************************************************************************)
(* Vocabulary of the properties                                            *)
(***************************************************************************)
Placed == 1..Len(gate_columns)
RowsOf(i) == get_operated_qubits(gates[i], num_qubits)
SpanOf(i) == Min(RowsOf(i))..Max(RowsOf(i))
\* rows gate i crosses with its connector without terminating there
CrossedOnly(i) == SpanOf(i) \ RowsOf(i)

\* C1 - no span overlap: two distinct placed gates whose row ranges
\* [min(rows), max(rows)] share a row never have the same column.
NoSpanOverlap ==
    \A i \in Placed : \A j \in Placed :
        (i # j /\ SpanOf(i) \cap SpanOf(j) # {}) => gate_columns[i] # gate_columns[j]

\* two placed gates that meet only where one crosses the other's row
NoSpanOverlapWitness ==
    /\ pc = "done"
    /\ \E i \in Placed : \E j \in Placed :
          /\ i < j
          /\ RowsOf(i) \cap RowsOf(j) = {}
          /\ RowsOf(j) \subseteq CrossedOnly(i)
          /\ gate_columns[j] = gate_columns[i] + 1

\* C2 - no terminal collision: of two gates operating on a common row, the
\* later one in input order has the strictly greater column.
NoTerminalCollision ==
    \A i \in Placed : \A j \in Placed :
        (i < j /\ RowsOf(i) \cap RowsOf(j) # {}) => gate_columns[j] > gate_columns[i]

NoTerminalCollisionWitness ==
    /\ pc = "done"
    /\ \E i \in Placed : \E j \in Placed :
          /\ i < j
          /\ RowsOf(i) \cap RowsOf(j) # {}
          /\ RowsOf(i) # RowsOf(j)
          /\ gate_columns[j] > gate_columns[i]

\* the two constraints of get_gate_column on a column c for the rows of a range,
\* on the occupancy state before the gate is placed
Fits(c, gate_range) ==
    /\ \A q \in gate_range : c > columns_of_last_target[q]
    /\ \A q \in gate_range : ~ InList(c, columns_occluded_by_connectors[q])

\* C3 - leftmost placement: the column appended for a gate is the smallest
\* integer that is greater than columns_of_last_target[q] and absent from
\* columns_occluded_by_connectors[q] for every row q of the gate's range, on
\* the state at the moment the gate is placed.
LeftmostPlacement ==
    [][ (pc = "loop" /\ Len(gate_columns') = Len(gate_columns) + 1) =>
          LET n == Len(gate_columns')
              rows == get_operated_qubits(gates[n], num_qubits)
              gate_range == Min(rows)..Max(rows)
              c == gate_columns'[n]
          IN  /\ Fits(c, gate_range)
              /\ \A d \in (-1)..(c - 1) : ~ Fits(d, gate_range) ]_vars

\* the while loop stepped: no earlier gate ends inside the gate's range, yet its
\* column is not 0, and an earlier gate elsewhere is not left of it
LeftmostPlacementWitness ==
    /\ pc = "done"
    /\ \E j \in Placed :
          /\ gate_columns[j] > 0
          /\ \A i \in 1..(j - 1) : RowsOf(i) \cap SpanOf(j) = {}
          /\ \E i \in 1..(j - 1) : gate_columns[i] >= gate_columns[j]

\* C4 as stated - no leftward passing over any gate of an overlapping range:
\* a later gate whose range overlaps an earlier gate's range never has the
\* smaller column.
NoLeftwardPassingOverRange ==
    \A i \in Placed : \A j \in Placed :
        (i < j /\ SpanOf(i) \cap SpanOf(j) # {}) => gate_columns[j] >= gate_columns[i]

\* C4 as amended - no leftward passing over terminals: a later gate never has a
\* column smaller than that of an earlier gate with a target or control
\* inside the later gate's range.
NoLeftwardPassing ==
    \A i \in Placed : \A j \in Placed :
        (i < j /\ RowsOf(i) \cap SpanOf(j) # {}) => gate_columns[j] >= gate_columns[i]

\* an earlier gate ends on a row the later gate only crosses
NoLeftwardPassingWitness ==
    /\ pc = "done"
    /\ \E i \in Placed : \E j \in Placed :
          /\ i < j
          /\ RowsOf(i) \cap RowsOf(j) = {}
          /\ RowsOf(i) \cap CrossedOnly(j) # {}
          /\ gate_columns[i] > 0
          /\ gate_columns[j] > gate_columns[i]

NoExplicitTargets == \A i \in DOMAIN gates : ~ has_explicit_targets(gates[i])
ExplicitRows ==
    UNION { gates[i].targets \cup gates[i].controls :
              i \in { j \in DOMAIN gates : has_explicit_targets(gates[j]) } }

\* C5 - undetermined extent: when no gate of the input has explicit targets
\* the call ends in the error raised by get_num_qubits; no row count is
\* assumed, no occupancy state is built, no gate gets a column and no column
\* list is returned.
UndeterminedExtent ==
    NoExplicitTargets =>
        /\ pc \in {"call", "error"}
        /\ num_qubits = 0
        /\ columns_of_last_target = <<>>
        /\ gate_columns = <<>>

\* the error outcome of a circuit made of un-targeted gates only
UndeterminedExtentWitness ==
    /\ pc = "error"
    /\ Len(gates) >= 2
    /\ NoExplicitTargets

\* C6 - row count: with at least one explicitly targeted gate get_num_qubits
\* returns (no error), and the value is one plus the largest row among the
\* targets and controls of the explicitly targeted gates; un-targeted gates
\* do not enter.
RowCount ==
    (~ NoExplicitTargets) =>
        /\ pc # "error"
        /\ pc \in {"loop", "done"} =>
              /\ (num_qubits - 1) \in ExplicitRows
              /\ \A r \in ExplicitRows : r < num_qubits

\* the largest row is a control, an un-targeted gate comes first, and the
\* diagram is smaller than the largest one of the bounds
RowCountWitness ==
    /\ pc = "done"
    /\ Len(gates) >= 2
    /\ ~ has_explicit_targets(gates[1])
    /\ num_qubits = 2
    /\ \A i \in DOMAIN gates : (num_qubits - 1) \notin gates[i].targets

\* C7 - occlusion invariant: after every iteration of the loop, on every row
\* each column of columns_occluded_by_connectors is strictly greater than
\* columns_of_last_target of that row.
OcclusionInvariant ==
    \A q \in DOMAIN columns_occluded_by_connectors :
        \A k \in DOMAIN columns_occluded_by_connectors[q] :
            columns_occluded_by_connectors[q][k] > columns_of_last_target[q]

\* a row outside the range of the gate placed last still holds an occluded column
OcclusionInvariantWitness ==
    /\ pc = "loop"
    /\ Len(gate_columns) >= 2
    /\ \E q \in DOMAIN columns_occluded_by_connectors :
          /\ q \notin SpanOf(Len(gate_columns))
          /\ columns_occluded_by_connectors[q] # <<>>
          /\ columns_of_last_target[q] >= 0

\* C8 - pruning is behaviour-neutral: the pass that never removes an entry of
\* the occlusion lists assigns every gate the column the pruning pass assigns.
PruningNeutral == noprune_columns = gate_columns

\* a gate was placed over a row whose list kept a stale entry in the pass without cleanup
PruningNeutralWitness ==
    /\ pc = "done"
    /\ \E k \in Placed : \E i \in Placed : \E j \in Placed : \E q \in SpanOf(j) :
          /\ k < i /\ i < j
          /\ q \in CrossedOnly(k)
          /\ q \in RowsOf(i)
          /\ InList(gate_columns[k], noprune_occluded[q])
          /\ ~ InList(gate_columns[k], columns_occluded_by_connectors[q])

\* column c was free on row r for gate j: right of every earlier terminal on r
\* and on no earlier gate's connector or terminal of r
FreeBefore(c, r, j) ==
    \A k \in 1..(j - 1) :
        /\ r \in RowsOf(k) => c > gate_columns[k]
        /\ r \in SpanOf(k) => c # gate_columns[k]

\* C9 - connectors do not block placement to their left: a gate operating on
\* the single row r, placed after a gate that only crosses r with its
\* connector, gets a column left of that gate whenever some column left of
\* it was free on r.
ConnectorsDoNotBlockLeft ==
    \A i \in Placed : \A j \in Placed :
        ( /\ i < j
          /\ Cardinality(RowsOf(j)) = 1
          /\ RowsOf(j) \subseteq CrossedOnly(i)
          /\ \E c \in 0..(gate_columns[i] - 1) : FreeBefore(c, Min(RowsOf(j)), j) )
        => gate_columns[j] < gate_columns[i]

\* a later one-row gate sits left of the connector that crosses its row
ConnectorsDoNotBlockLeftWitness ==
    /\ pc = "done"
    /\ \E i \in Placed : \E j \in Placed :
          /\ i < j
          /\ Cardinality(RowsOf(j)) = 1
          /\ RowsOf(j) \subseteq CrossedOnly(i)
          /\ gate_columns[j] < gate_columns[i]

\* C10 - global gates are barriers: a gate without explicit targets has a
\* column strictly greater than that of every gate before it, and every gate
\* after it has a column strictly greater than its column.
GlobalBarrier ==
    \A i \in Placed : \A j \in Placed :
        (i < j /\ (~ has_explicit_targets(gates[i]) \/ ~ has_explicit_targets(gates[j])))
        => gate_columns[j] > gate_columns[i]

\* an un-targeted gate between two gates that have no row in common
GlobalBarrierWitness ==
    /\ pc = "done"
    /\ Len(gates) = 3
    /\ ~ has_explicit_targets(gates[2])
    /\ has_explicit_targets(gates[1]) /\ has_explicit_targets(gates[3])
    /\ SpanOf(1) \cap SpanOf(3) = {}
    /\ gate_columns = <<0, 1, 2>>

ColumnsUsed == { gate_columns[i] : i \in Placed }

\* C11 - no empty columns: after every prefix of the gates the columns
\* assigned so far are exactly 0..m, m the largest of them; the first gate has
\* column 0, every gate at a column c > 0 has an earlier gate at column c - 1,
\* and num_columns of draw_circuit is the number of columns that hold a gate.
NoEmptyColumns ==
    /\ Placed # {} => gate_columns[1] = 0
    /\ \A j \in Placed :
          gate_columns[j] > 0 =>
              \E i \in 1..(j - 1) : gate_columns[i] = gate_columns[j] - 1
    /\ Placed # {} => ColumnsUsed = 0..Max(ColumnsUsed)
    /\ pc = "done" => num_columns = Cardinality(ColumnsUsed)

\* three gates in two columns, one of which reached its column by stepping
\* over a connector (no earlier gate ends inside its range)
NoEmptyColumnsWitness ==
    /\ pc = "done"
    /\ Len(gate_columns) = 3
    /\ num_columns = 2
    /\ \E j \in Placed :
          /\ gate_columns[j] = 1
          /\ \A i \in 1..(j - 1) : RowsOf(i) \cap SpanOf(j) = {}

====
